---- MODULE Spec2Model ----
(***************************************************************************)
(* Model of ancillary_scraper.py: the fetch / flatten / filter / save      *)
(* cycle of the ERCOT ancillary-service monitor.                           *)
(*                                                                         *)
(* Python strings are sequences of one-character strings, so that key      *)
(* sanitising (replace, upper, endswith, concatenation) is computed.       *)
(* A JSON value as json.loads returns it is a record [t, v]:               *)
(*   t = "null" (None), "bool", "num" (a non-negative int), "str",         *)
(*   "arr" (v a sequence of values), "obj" (v a dict).                     *)
(* A Python dict is a sequence of <<key, value>> pairs with distinct keys, *)
(* in insertion order.                                                     *)
(***************************************************************************)
EXTENDS Integers, Sequences, FiniteSets, TLC

VARIABLES
    response,     \* what the HTTP request of the last fetch_data met
    json_data,    \* the document handed to flatten_data (None: no document)
    flat_record,  \* what flatten_data returned, or that it raised
    sink,         \* the file DATA_FILE
    sink_before,  \* DATA_FILE when the last main / save_to_csv call began
    exit_code,    \* exit status of the last main (-1: none has run)
    outcome,      \* how the last main / save_to_csv call ended
    saved,        \* the records save_to_csv was given and did not skip, in call order
    clean,        \* DATA_FILE has never been damaged
    accepted,     \* payload column counts of the documents main saved
    rejected,     \* payload column counts of the documents main found insufficient
    runs          \* calls made so far

vars == <<response, json_data, flat_record, sink, sink_before, exit_code,
          outcome, saved, clean, accepted, rejected, runs>>

(***************************************************************************)
(* Bounds of the model.                                                    *)
(***************************************************************************)
MaxLen == 2        \* longest array in a generated document
MaxKeys == 2       \* most members of a generated row object
MaxRuns == 2       \* invocations of main in one behaviour
MaxSaves == 3      \* direct save_to_csv calls in one behaviour

(***************************************************************************)
(* Python values and strings.                                              *)
(***************************************************************************)
None == [t |-> "null", v |-> 0]
Num(n) == [t |-> "num", v |-> n]
Str(s) == [t |-> "str", v |-> s]
Bool(b) == [t |-> "bool", v |-> b]
Arr(a) == [t |-> "arr", v |-> a]
Obj(d) == [t |-> "obj", v |-> d]
Float(n) == [t |-> "float", v |-> n]     \* the float n.0 (pandas upcast)
NaN == [t |-> "nan", v |-> 0]

\* Python truthiness: bool(x)
Truthy(x) ==
    CASE x.t = "null" -> FALSE
      [] x.t = "bool" -> x.v
      [] x.t = "num" -> x.v # 0
      [] x.t = "str" -> x.v # <<>>
      [] x.t = "arr" -> x.v # <<>>
      [] x.t = "obj" -> x.v # <<>>
      [] OTHER -> TRUE

Lower == <<"a","b","c","d","e","f","g","h","i","j","k","l","m",
           "n","o","p","q","r","s","t","u","v","w","x","y","z">>
Upper == <<"A","B","C","D","E","F","G","H","I","J","K","L","M",
           "N","O","P","Q","R","S","T","U","V","W","X","Y","Z">>

\* str.upper() on one character
UpperChar(c) ==
    IF \E i \in 1..Len(Lower) : Lower[i] = c
    THEN Upper[CHOOSE i \in 1..Len(Lower) : Lower[i] = c]
    ELSE c

\* str.upper()
StrUpper(s) == [i \in 1..Len(s) |-> UpperChar(s[i])]

\* chained str.replace(c, "_") for every c in olds
Replace(s, olds) == [i \in 1..Len(s) |-> IF s[i] \in olds THEN "_" ELSE s[i]]

\* str.endswith
EndsWith(s, suffix) ==
    /\ Len(suffix) <= Len(s)
    /\ SubSeq(s, Len(s) - Len(suffix) + 1, Len(s)) = suffix

Digits == <<"0","1","2","3","4","5","6","7","8","9">>

\* str(n) for an int n >= 0
RECURSIVE IntStr(_)
IntStr(n) ==
    IF n < 10 THEN <<Digits[n + 1]>>
    ELSE IntStr(n \div 10) \o <<Digits[(n % 10) + 1]>>

RECURSIVE JoinComma(_)
JoinComma(parts) ==
    IF parts = <<>> THEN <<>>
    ELSE IF Len(parts) = 1 THEN parts[1]
    ELSE parts[1] \o <<",", " ">> \o JoinComma(Tail(parts))

\* repr(x), as str() of a list or dict prints its members
RECURSIVE PyRepr(_)
PyRepr(x) ==
    CASE x.t = "null" -> <<"N","o","n","e">>
      [] x.t = "bool" -> IF x.v THEN <<"T","r","u","e">> ELSE <<"F","a","l","s","e">>
      [] x.t = "num" -> IntStr(x.v)
      [] x.t = "float" -> IntStr(x.v) \o <<".", "0">>
      [] x.t = "nan" -> <<"n","a","n">>
      [] x.t = "str" -> <<"'">> \o x.v \o <<"'">>
      [] x.t = "arr" ->
            <<"[">> \o JoinComma([i \in 1..Len(x.v) |-> PyRepr(x.v[i])]) \o <<"]">>
      [] x.t = "obj" ->
            <<"{">> \o JoinComma([i \in 1..Len(x.v) |->
                        <<"'">> \o x.v[i][1] \o <<"'", ":", " ">> \o PyRepr(x.v[i][2])])
                  \o <<"}">>

\* str(x), as an f-string formats x
PyStr(x) == IF x.t = "str" THEN x.v ELSE PyRepr(x)

(***************************************************************************)
(* Python dicts.                                                           *)
(***************************************************************************)
DictKeys(d) == {d[i][1] : i \in 1..Len(d)}

DictHas(d, k) == \E i \in 1..Len(d) : d[i][1] = k

\* d[k] for a key that is present
DictAt(d, k) == d[CHOOSE i \in 1..Len(d) : d[i][1] = k][2]

\* d.get(k, default)
DictGet(d, k, default) == IF DictHas(d, k) THEN DictAt(d, k) ELSE default

\* d.update(items) and dict(items): a key stands where it was first inserted
\* and holds the value it was last given
DictUpdate(d, items) ==
    LET all == d \o items
        first == SelectSeq([i \in 1..Len(all) |-> i],
                           LAMBDA i : \A j \in 1..(i - 1) : all[j][1] # all[i][1])
        last(f) == CHOOSE i \in f..Len(all) :
                      /\ all[i][1] = all[f][1]
                      /\ \A j \in (i + 1)..Len(all) : all[j][1] # all[f][1]
    IN  [n \in 1..Len(first) |-> <<all[first[n]][1], all[last(first[n])][2]>>]

RECURSIVE Concat(_)
Concat(seqs) == IF seqs = <<>> THEN <<>> ELSE seqs[1] \o Concat(Tail(seqs))

(***************************************************************************)
(* deep_flatten                                                            *)
(***************************************************************************)
kType == <<"t","y","p","e">>
kService == <<"s","e","r","v","i","c","e">>
kName == <<"n","a","m","e">>
kLabel == <<"l","a","b","e","l">>
kINDEX == <<"I","N","D","E","X">>

\* line 41: parent_key + separator + key if parent_key else key
NewKey(parent_key, key) ==
    IF parent_key # <<>> THEN parent_key \o <<"_">> \o key ELSE key

\* line 42
NewKeyClean(parent_key, key) ==
    StrUpper(Replace(NewKey(parent_key, key), {" ", ":", ".", "-"}))

\* line 47
IsKeyValueList(value) ==
    \A i \in 1..Len(value) :
        /\ value[i].t = "arr"
        /\ Len(value[i].v) = 2
        /\ value[i].v[1].t = "str"

\* line 57
IsDictList(value) == \A i \in 1..Len(value) : value[i].t = "obj"

\* lines 52-54: one item of a [key, value] list
PairItem(new_key_clean, item_list) ==
    <<new_key_clean \o <<"_">> \o StrUpper(Replace(item_list[1].v, {" ", "-"})),
      item_list[2]>>

\* line 61 with "name" probed before "service"
ItemId_name_first(row, i) ==
    IF Truthy(DictGet(row, kType, None)) THEN DictGet(row, kType, None)
    ELSE IF Truthy(DictGet(row, kName, None)) THEN DictGet(row, kName, None)
    ELSE IF Truthy(DictGet(row, kService, None)) THEN DictGet(row, kService, None)
    ELSE IF Truthy(DictGet(row, kLabel, None)) THEN DictGet(row, kLabel, None)
    ELSE Str(kINDEX \o IntStr(i))

\* line 61: i is the 0-based index of enumerate
ItemId(row, i) ==
    IF Truthy(DictGet(row, kType, None)) THEN DictGet(row, kType, None)
    ELSE IF Truthy(DictGet(row, kService, None)) THEN DictGet(row, kService, None)
    ELSE IF Truthy(DictGet(row, kName, None)) THEN DictGet(row, kName, None)
    ELSE IF Truthy(DictGet(row, kLabel, None)) THEN DictGet(row, kLabel, None)
    ELSE Str(kINDEX \o IntStr(i))

\* line 62
ItemPrefix(new_key_clean, row, i) ==
    Replace(StrUpper(new_key_clean \o <<"_">> \o PyStr(ItemId(row, i))), {" "})

\* line 68
FallbackItem(new_key_clean, i, item) ==
    <<new_key_clean \o <<"_","I","N","D","E","X","_">> \o IntStr(i), item>>

RECURSIVE deep_flatten(_, _)
\* lines 39-76: the items one (key, value) member contributes
MemberItems(parent_key, key, value) ==
    LET new_key_clean == NewKeyClean(parent_key, key) IN
    IF value.t = "arr" THEN
        IF IsKeyValueList(value.v)
        THEN [i \in 1..Len(value.v) |-> PairItem(new_key_clean, value.v[i].v)]
        ELSE IF IsDictList(value.v)
        THEN Concat([i \in 1..Len(value.v) |->
                deep_flatten(value.v[i], ItemPrefix(new_key_clean, value.v[i].v, i - 1))])
        ELSE [i \in 1..Len(value.v) |-> FallbackItem(new_key_clean, i - 1, value.v[i])]
    ELSE IF value.t = "obj" THEN deep_flatten(value, new_key_clean)
    ELSE << <<new_key_clean, value>> >>

\* lines 32-78
deep_flatten(dictionary, parent_key) ==
    IF dictionary.t # "obj" THEN <<>>
    ELSE DictUpdate(<<>>,
            Concat([i \in 1..Len(dictionary.v) |->
                MemberItems(parent_key, dictionary.v[i][1], dictionary.v[i][2])]))

(***************************************************************************)
(* filter_redundant_fields                                                 *)
(***************************************************************************)
redundant_suffixes ==
    { <<"_","T","Y","P","E">>, <<"_","S","E","R","V","I","C","E">>,
      <<"_","N","A","M","E">>, <<"_","L","A","B","E","L">>,
      <<"_","D","E","S","C","R","I","P","T","I","O","N">>,
      <<"_","K","E","Y">>, <<"_","V","A","L","U","E">> }

kSCRAPE == <<"S","C","R","A","P","E","_","T","I","M","E","S","T","A","M","P","_","U","T","C">>
kERCOT == <<"E","R","C","O","T","_","L","A","S","T","_","U","P","D","A","T","E">>

\* lines 86-100: is the (key, value) item kept
Kept(key, value) ==
    \/ key \in {kSCRAPE, kERCOT}
    \/ /\ ~ \E suffix \in redundant_suffixes : EndsWith(key, suffix)
       /\ value.t # "null"
       /\ ~ (value.t = "str" /\ value.v = <<>>)

\* lines 81-102
filter_redundant_fields(record) ==
    SelectSeq(record, LAMBDA item : Kept(item[1], item[2]))

(***************************************************************************)
(* flatten_data                                                            *)
(***************************************************************************)
k_scrape == <<"s","c","r","a","p","e","_","t","i","m","e","s","t","a","m","p","_","u","t","c">>
k_ercot == <<"e","r","c","o","t","_","l","a","s","t","_","u","p","d","a","t","e">>
kLastUpdate == <<"l","a","s","t","U","p","d","a","t","e">>
kData == <<"d","a","t","a">>
kDATA == <<"D","A","T","A">>

\* a call's result: a value, None, or an exception that leaves the function
Returned(d) == [kind |-> "dict", d |-> d]
ReturnedNone == [kind |-> "None", d |-> <<>>]
Raised == [kind |-> "raise", d |-> <<>>]
Unset == [kind |-> "unset", d |-> <<>>]

\* lines 113-119: the seeded record
Seeded(json_data_, now) ==
    IF Truthy(DictGet(json_data_.v, kLastUpdate, None))
    THEN << <<k_scrape, Str(now)>>, <<k_ercot, DictGet(json_data_.v, kLastUpdate, None)>> >>
    ELSE << <<k_scrape, Str(now)>> >>

\* line 122
RawData(json_data_) == DictGet(json_data_.v, kData, Obj(<<>>))

\* lines 105-126; .get on a list, str, int or bool raises AttributeError
flatten_data(json_data_, now) ==
    IF ~ Truthy(json_data_) THEN ReturnedNone
    ELSE IF json_data_.t # "obj" THEN Raised
    ELSE Returned(filter_redundant_fields(
            DictUpdate(Seeded(json_data_, now), deep_flatten(RawData(json_data_), kDATA))))

(***************************************************************************)
(* save_to_csv.  DATA_FILE is absent, unreadable (pd.read_csv raises), or  *)
(* CSV text: a header of column names and rows of cell texts.  A DataFrame *)
(* is columns and rows of typed cells.                                     *)
(***************************************************************************)
Absent == [state |-> "absent", header |-> <<>>, rows |-> <<>>]
Corrupted == [state |-> "corrupt", header |-> <<>>, rows |-> <<>>]
Table(header, rows) == [state |-> "table", header |-> header, rows |-> rows]

DataFrame(columns, rows) == [columns |-> columns, rows |-> rows]

\* line 134: pd.DataFrame([record])
FromRecord(record) ==
    DataFrame([j \in 1..Len(record) |-> record[j][1]],
              << [j \in 1..Len(record) |-> record[j][2]] >>)

\* the text to_csv writes for one cell: NaN and None as the empty field
CellText(x) ==
    IF x.t \in {"null", "nan"} THEN <<>>
    ELSE IF x.t = "str" THEN x.v
    ELSE PyRepr(x)

\* DataFrame.to_csv(DATA_FILE, index=False)
to_csv(df) ==
    Table(df.columns,
          [i \in 1..Len(df.rows) |->
              [j \in 1..Len(df.columns) |-> CellText(df.rows[i][j])]])

IsDigit(c) == \E i \in 1..Len(Digits) : Digits[i] = c

DigitVal(c) == (CHOOSE i \in 1..Len(Digits) : Digits[i] = c) - 1

IsIntText(s) == s # <<>> /\ \A i \in 1..Len(s) : IsDigit(s[i])

\* the floats to_csv writes for upcast ints: digits followed by ".0"
IsFloatText(s) ==
    /\ Len(s) >= 3
    /\ SubSeq(s, Len(s) - 1, Len(s)) = <<".", "0">>
    /\ IsIntText(SubSeq(s, 1, Len(s) - 2))

IsBoolText(s) == s \in { <<"T","r","u","e">>, <<"F","a","l","s","e">> }

RECURSIVE ParseInt(_)
ParseInt(s) ==
    IF s = <<>> THEN 0
    ELSE 10 * ParseInt(SubSeq(s, 1, Len(s) - 1)) + DigitVal(s[Len(s)])

\* the dtype pd.read_csv(keep_default_na=False) infers for a column's texts
ColumnType(texts) ==
    IF \A i \in 1..Len(texts) : IsIntText(texts[i]) THEN "int"
    ELSE IF \A i \in 1..Len(texts) : IsIntText(texts[i]) \/ IsFloatText(texts[i])
    THEN "float"
    ELSE IF \A i \in 1..Len(texts) : IsBoolText(texts[i]) THEN "bool"
    ELSE "object"

ParseCell(type, s) ==
    CASE type = "int" -> Num(ParseInt(s))
      [] type = "float" ->
            Float(ParseInt(IF IsIntText(s) THEN s ELSE SubSeq(s, 1, Len(s) - 2)))
      [] type = "bool" -> Bool(s = <<"T","r","u","e">>)
      [] OTHER -> Str(s)

\* line 145: pd.read_csv(DATA_FILE, keep_default_na=False) of a readable file
read_csv(file) ==
    LET types == [j \in 1..Len(file.header) |->
                    ColumnType([r \in 1..Len(file.rows) |-> file.rows[r][j]])]
    IN  DataFrame(file.header,
            [i \in 1..Len(file.rows) |->
                [j \in 1..Len(file.header) |-> ParseCell(types[j], file.rows[i][j])]])

\* the index of name in columns, 0 when it is not a column
ColumnIndex(columns, name) ==
    IF \E j \in 1..Len(columns) : columns[j] = name
    THEN CHOOSE j \in 1..Len(columns) : columns[j] = name
    ELSE 0

\* a row of df under the columns of the concatenation: NaN where it has none
Reindex(df, i, columns) ==
    LET at == [j \in 1..Len(columns) |-> ColumnIndex(df.columns, columns[j])]
    IN  [j \in 1..Len(columns) |-> IF at[j] = 0 THEN NaN ELSE df.rows[i][at[j]]]

\* a numeric column that holds a NaN or a float becomes float64
Upcasts(rows, j) ==
    /\ \A i \in 1..Len(rows) : rows[i][j].t \in {"num", "float", "nan"}
    /\ \E i \in 1..Len(rows) : rows[i][j].t \in {"float", "nan"}

\* line 148: pd.concat([existing_df, df_new_row], ignore_index=True)
concat(existing_df, df_new_row) ==
    LET columns == existing_df.columns
                     \o SelectSeq(df_new_row.columns,
                                  LAMBDA name : ColumnIndex(existing_df.columns, name) = 0)
        rows == [i \in 1..Len(existing_df.rows) |->
                    [j \in 1..Len(columns) |->
                        IF j <= Len(existing_df.columns) THEN existing_df.rows[i][j]
                        ELSE NaN]]
                  \o << Reindex(df_new_row, 1, columns) >>
        upcast == [j \in 1..Len(columns) |-> Upcasts(rows, j)]
    IN DataFrame(columns,
          [i \in 1..Len(rows) |->
              [j \in 1..Len(columns) |->
                  IF upcast[j] /\ rows[i][j].t = "num"
                  THEN Float(rows[i][j].v) ELSE rows[i][j]]])

\* save_to_csv that writes the new row alone, never reading the old file
save_to_csv_overwrite(record, file) ==
    IF record = <<>> THEN file ELSE to_csv(FromRecord(record))

\* save_to_csv without the except clause of lines 154-159: the exception of
\* pd.read_csv leaves the function and DATA_FILE stays as it was
save_to_csv_no_except(record, file) ==
    IF record = <<>> THEN file
    ELSE IF file.state = "absent" THEN to_csv(FromRecord(record))
    ELSE IF file.state = "corrupt" THEN file
    ELSE to_csv(concat(read_csv(file), FromRecord(record)))

\* lines 129-159: DATA_FILE after save_to_csv(record)
save_to_csv(record, file) ==
    IF record = <<>> THEN file
    ELSE IF file.state = "absent" THEN to_csv(FromRecord(record))
    ELSE IF file.state = "corrupt" THEN to_csv(FromRecord(record))
    ELSE to_csv(concat(read_csv(file), FromRecord(record)))

(***************************************************************************)
(* fetch_data and main                                                     *)
(***************************************************************************)
\* the result of the HTTP request: an exception or error status, an empty
\* body, a body that is not JSON, or a body that parses to doc
Response(status, doc) == [status |-> status, body |-> doc]

\* lines 13-30
fetch_data(resp) == IF resp.status = "ok" THEN resp.body ELSE None

\* line 171: we expect many fields
MinFields == 50

\* main without the exit(1) of line 179
main_no_exit(resp, now, file) ==
    LET data == fetch_data(resp)
        flat == flatten_data(data, now)
    IN  IF Truthy(data) THEN
            IF flat.kind = "raise"
            THEN [json_data |-> data, flat_record |-> flat, sink |-> file,
                  exit_code |-> 1, outcome |-> "fault"]
            ELSE IF flat.kind = "dict" /\ flat.d # <<>> /\ Len(flat.d) > MinFields
            THEN [json_data |-> data, flat_record |-> flat,
                  sink |-> save_to_csv(flat.d, file),
                  exit_code |-> 0, outcome |-> "saved"]
            ELSE [json_data |-> data, flat_record |-> flat, sink |-> file,
                  exit_code |-> 0, outcome |-> "insufficient"]
        ELSE [json_data |-> data, flat_record |-> Unset, sink |-> file,
              exit_code |-> 1, outcome |-> "fetch_failed"]

\* main that saves before it looks at the number of fields
main_saves_first(resp, now, file) ==
    LET data == fetch_data(resp)
        flat == flatten_data(data, now)
    IN  IF Truthy(data) THEN
            IF flat.kind = "raise"
            THEN [json_data |-> data, flat_record |-> flat, sink |-> file,
                  exit_code |-> 1, outcome |-> "fault"]
            ELSE IF flat.kind = "dict" /\ flat.d # <<>> /\ Len(flat.d) > MinFields
            THEN [json_data |-> data, flat_record |-> flat,
                  sink |-> save_to_csv(flat.d, file),
                  exit_code |-> 0, outcome |-> "saved"]
            ELSE [json_data |-> data, flat_record |-> flat,
                  sink |-> save_to_csv(flat.d, file),
                  exit_code |-> 1, outcome |-> "insufficient"]
        ELSE [json_data |-> data, flat_record |-> Unset, sink |-> file,
              exit_code |-> 1, outcome |-> "fetch_failed"]

\* lines 162-182: the fetched document, what flatten_data returned, DATA_FILE
\* afterwards, the process's exit status and the branch that was taken
main(resp, now, file) ==
    LET data == fetch_data(resp)
        flat == flatten_data(data, now)
    IN  IF Truthy(data) THEN
            IF flat.kind = "raise"
            THEN [json_data |-> data, flat_record |-> flat, sink |-> file,
                  exit_code |-> 1, outcome |-> "fault"]
            ELSE IF flat.kind = "dict" /\ flat.d # <<>> /\ Len(flat.d) > MinFields
            THEN [json_data |-> data, flat_record |-> flat,
                  sink |-> save_to_csv(flat.d, file),
                  exit_code |-> 0, outcome |-> "saved"]
            ELSE [json_data |-> data, flat_record |-> flat, sink |-> file,
                  exit_code |-> 1, outcome |-> "insufficient"]
        ELSE [json_data |-> data, flat_record |-> Unset, sink |-> file,
              exit_code |-> 1, outcome |-> "fetch_failed"]

(***************************************************************************)
(* The inputs: documents response.json() can return, and records.          *)
(***************************************************************************)
kRows == <<"r","o","w","s">>
kVal == <<"v","a","l">>
kColor == <<"c","o","l","o","r">>
kGroup == <<"a"," ","b">>
sRRS == <<"R","R","S">>
sXy == <<"X"," ","y">>
sRed == <<"r","e","d">>

\* the arrays of at most MaxLen elements of E
Arrays(E) == UNION { [1..n -> E] : n \in 0..MaxLen }

\* the members of a set of integers in increasing order
SortedSeq(S) ==
    [n \in 1..Cardinality(S) |-> CHOOSE x \in S : Cardinality({y \in S : y < x}) = n - 1]

\* the naming fields line 61 probes, each with the values it takes here
NameField(n) ==
    CASE n = 1 -> [key |-> kType, values |-> {Str(sRRS), Str(<<>>)}]
      [] n = 2 -> [key |-> kService, values |-> {Str(<<"S">>)}]
      [] n = 3 -> [key |-> kName, values |-> {Str(sXy), None}]
      [] n = 4 -> [key |-> kLabel, values |-> {Str(<<"L">>)}]

\* row objects: at most MaxKeys naming fields, then "val": 5
RowObjs ==
    UNION { LET idx == SortedSeq(ks) IN
            { Obj([j \in 1..Len(idx) |-> <<NameField(idx[j]).key, f[idx[j]]>>]
                    \o << <<kVal, Num(5)>> >>) :
              f \in { g \in [ks -> UNION {NameField(n).values : n \in ks}] :
                        \A n \in ks : g[n] \in NameField(n).values } } :
            ks \in { k \in SUBSET (1..4) : Cardinality(k) <= MaxKeys } }

Scalars == {None, Num(0), Num(5), Str(<<>>), Str(kLabel), Str(sRed), Bool(TRUE)}

\* array elements: scalars, [name, value] pairs, small objects
Elems ==
    Scalars
    \cup { Arr(<<Str(kGroup), x>>) : x \in {Num(1), None, Str(kLabel), Arr(<<Num(1)>>),
                                            Obj(<< <<kVal, Num(1)>> >>)} }
    \cup { Obj(<< <<kColor, Str(sRed)>> >>), Obj(<< <<kLabel, Str(sXy)>>, <<kVal, Num(7)>> >>) }

\* values of one member of the payload
PayloadValues ==
    Scalars \cup { Arr(a) : a \in Arrays(Elems) }
            \cup { Obj(<< <<kColor, Num(1)>>, <<kVal, x>> >>) : x \in Scalars }

PayloadKeys == {kColor, kGroup, kVal}

LastUpdates == {Str(<<"t","1">>), Str(<<>>), Arr(<<Num(1)>>)}

\* documents with one payload member under "data"
DataDocs ==
    { Obj(<< <<kData, Obj(<< <<k, x>> >>)>> >>) : k \in PayloadKeys, x \in PayloadValues }

\* documents with one payload member at the root and no "data"
RootDocs == { Obj(<< <<k, x>> >>) : k \in PayloadKeys, x \in PayloadValues }

\* documents with a "lastUpdate" and one payload member under "data"
UpdateDocs ==
    { Obj(<< <<kLastUpdate, u>>, <<kData, Obj(<< <<k, x>> >>)>> >>) :
        u \in LastUpdates, k \in PayloadKeys, x \in PayloadValues }

\* documents whose payload is a list of row objects
RowDocs ==
    { Obj(<< <<kData, Obj(<< <<kRows, Arr(a)>> >>)>> >>) :
        a \in Arrays(RowObjs) \ {<<>>} }

\* documents that are no object, or whose "data" is none
OddDocs ==
    { None, Obj(<<>>), Arr(<<>>), Arr(<<Num(1)>>), Str(sRed), Str(<<>>), Num(5), Num(0),
      Bool(TRUE), Bool(FALSE),
      Obj(<< <<kData, Arr(<<Num(1)>>)>> >>), Obj(<< <<kData, Str(sRed)>> >>),
      Obj(<< <<kData, None>> >>) }

\* a document whose payload has n scalar members K0 .. K(n-1)
BigDoc(n, withUpdate) ==
    LET data == Obj([i \in 1..n |-> << <<"K">> \o IntStr(i - 1), Num(i) >>])
    IN  IF withUpdate
        THEN Obj(<< <<kLastUpdate, Str(<<"t","1">>)>>, <<kData, data>> >>)
        ELSE Obj(<< <<kData, data>> >>)

\* payload sizes around the threshold of line 171
BigDocs == { BigDoc(n, u) : n \in (MinFields - 2)..MinFields, u \in BOOLEAN }

\* what the HTTP request of fetch_data can meet
Responses ==
    { Response(st, None) : st \in {"error", "empty", "unparsable"} }
    \cup { Response("ok", d) : d \in BigDocs }
    \cup { Response("ok", d) :
            d \in { None, Obj(<<>>), Arr(<<Num(1)>>),
                    Obj(<< <<kData, Obj(<< <<kVal, Num(1)>> >>)>> >>) } }

\* line 114: datetime.datetime.utcnow().isoformat(), a clock that advances
Now(n) == <<"T">> \o IntStr(n)

\* records for direct save_to_csv calls: any of the columns A, B, C
SaveColumn(n) ==
    CASE n = 1 -> [key |-> <<"A">>, values |-> {Num(1), None}]
      [] n = 2 -> [key |-> <<"B">>, values |-> {Str(<<"x">>)}]
      [] n = 3 -> [key |-> <<"C">>, values |-> {Num(2)}]

SaveRecords ==
    UNION { LET idx == SortedSeq(ks) IN
            { [j \in 1..Len(idx) |-> <<SaveColumn(idx[j]).key, f[idx[j]]>>] :
              f \in { g \in [ks -> UNION {SaveColumn(n).values : n \in ks}] :
                        \A n \in ks : g[n] \in SaveColumn(n).values } } :
            ks \in SUBSET (1..3) }

(***************************************************************************)
(* Actions.                                                                *)
(***************************************************************************)
\* the columns of a record that the payload contributed
PayloadCount(d) == Cardinality({i \in 1..Len(d) : d[i][1] \notin {k_scrape, k_ercot}})

Init ==
    /\ response = Response("none", None)
    /\ json_data = None
    /\ flat_record = Unset
    /\ sink = Absent
    /\ sink_before = Absent
    /\ exit_code = -1
    /\ outcome = "none"
    /\ saved = <<>>
    /\ clean = TRUE
    /\ accepted = {}
    /\ rejected = {}
    /\ runs = 0

\* one run of the script: lines 162-185
Main ==
    \E resp \in Responses :
        /\ runs < MaxRuns
        /\ \E r \in {main(resp, Now(runs), sink)} :
            /\ response' = resp
            /\ json_data' = r.json_data
            /\ flat_record' = r.flat_record
            /\ sink_before' = sink
            /\ sink' = r.sink
            /\ exit_code' = r.exit_code
            /\ outcome' = r.outcome
            /\ saved' = IF r.outcome = "saved" THEN Append(saved, r.flat_record.d) ELSE saved
            /\ clean' = clean
            /\ accepted' = IF r.outcome = "saved"
                           THEN accepted \cup {PayloadCount(r.flat_record.d)} ELSE accepted
            /\ rejected' = IF r.outcome = "insufficient"
                           THEN rejected \cup {PayloadCount(r.flat_record.d)} ELSE rejected
        /\ runs' = runs + 1

\* DATA_FILE is damaged between runs, so that pd.read_csv raises (line 154)
Corrupt ==
    /\ sink.state = "table"
    /\ sink' = Corrupted
    /\ clean' = FALSE
    /\ UNCHANGED <<response, json_data, flat_record, sink_before, exit_code, outcome,
                   saved, accepted, rejected, runs>>

Next == Main \/ Corrupt

Spec == Init /\ [][Next]_vars

\* a direct call save_to_csv(record): lines 129-159
SaveToCsv ==
    \E record \in SaveRecords :
        /\ runs < MaxSaves
        /\ flat_record' = Returned(record)
        /\ sink_before' = sink
        /\ sink' = save_to_csv(record, sink)
        /\ outcome' = IF record = <<>> THEN "skipped"
                      ELSE IF sink.state = "absent" THEN "created"
                      ELSE IF sink.state = "corrupt" THEN "overwritten"
                      ELSE "appended"
        /\ saved' = IF record = <<>> THEN saved ELSE Append(saved, record)
        /\ clean' = clean
        /\ runs' = runs + 1
        /\ UNCHANGED <<response, json_data, exit_code, accepted, rejected>>

NextSave == SaveToCsv \/ Corrupt

SpecSave == Init /\ [][NextSave]_vars

\* flatten_data is about to be called on any document
InitFlatten ==
    /\ response = Response("none", None)
    /\ \/ json_data \in DataDocs
       \/ json_data \in RootDocs
       \/ json_data \in UpdateDocs
       \/ json_data \in RowDocs
       \/ json_data \in OddDocs
    /\ flat_record = Unset
    /\ sink = Absent
    /\ sink_before = Absent
    /\ exit_code = -1
    /\ outcome = "none"
    /\ saved = <<>>
    /\ clean = TRUE
    /\ accepted = {}
    /\ rejected = {}
    /\ runs = 0

\* a call flatten_data(json_data): lines 105-126
FlattenData ==
    /\ outcome = "none"
    /\ flat_record' = flatten_data(json_data, Now(runs))
    /\ outcome' = "flattened"
    /\ UNCHANGED <<response, json_data, sink, sink_before, exit_code, saved, clean,
                   accepted, rejected, runs>>

NextFlatten == FlattenData

SpecFlatten == InitFlatten /\ [][NextFlatten]_vars

(***************************************************************************)
(* The claims.                                                             *)
(***************************************************************************)
\* the texts to_csv can write for a value: an int of a column that pandas
\* made float64 is written with ".0"
CellTexts(x) ==
    IF x.t = "num" THEN {CellText(x), CellText(Float(x.v))} ELSE {CellText(x)}

\* row is record laid out under header, with empty cells for the columns the
\* record lacks
RowOf(record, header, row) ==
    /\ Len(row) = Len(header)
    /\ DictKeys(record) \subseteq {header[j] : j \in 1..Len(header)}
    /\ \A j \in 1..Len(header) :
          IF DictHas(record, header[j])
          THEN row[j] \in CellTexts(DictAt(record, header[j]))
          ELSE row[j] = <<>>

\* the fetch of the last run gave no document
FetchFailed == exit_code # -1 /\ (response.status # "ok" \/ ~ Truthy(response.body))

\* the record of the last run had too few fields
Insufficient ==
    exit_code # -1 /\ flat_record.kind = "dict" /\ ~ (Len(flat_record.d) > MinFields)

\* C1: main exits with 0 only when the fetch returned a document, the record
\* passed the threshold and that record was written to the sink in the same
\* run; it exits non-zero whenever the fetch failed or the record was
\* insufficient.
C1_ExitContract ==
    [][ runs' = runs + 1 =>
          /\ exit_code' = 0 =>
                /\ response'.status = "ok"
                /\ json_data' = response'.body
                /\ flat_record'.kind = "dict"
                /\ Len(flat_record'.d) > MinFields
                /\ sink'.state = "table"
                /\ Len(sink'.rows) = IF sink.state = "table" THEN Len(sink.rows) + 1 ELSE 1
                /\ RowOf(flat_record'.d, sink'.header, sink'.rows[Len(sink'.rows)])
          /\ (FetchFailed' \/ Insufficient') => exit_code' \notin {0, -1} ]_vars

\* C1 witness: a run exited 0 after appending its record to an existing sink
C1_Witness ==
    /\ exit_code = 0
    /\ sink_before.state = "table"
    /\ sink.state = "table"
    /\ Len(sink.rows) = 2

\* C2: from an absent sink that is never damaged, after N saving calls the
\* sink holds N rows in call order under a header that is the union of the
\* N records' columns, with empty cells where a record lacks a column.
C2_SinkAppend ==
    (clean /\ saved # <<>>) =>
        /\ sink.state = "table"
        /\ Len(sink.rows) = Len(saved)
        /\ {sink.header[j] : j \in 1..Len(sink.header)}
              = UNION {DictKeys(saved[i]) : i \in 1..Len(saved)}
        /\ \A j, k \in 1..Len(sink.header) : sink.header[j] = sink.header[k] => j = k
        /\ \A i \in 1..Len(saved) : RowOf(saved[i], sink.header, sink.rows[i])

\* C2 witness: three records with different columns were saved, and the first
\* row has an empty cell for a column that came later
C2_Witness ==
    /\ clean
    /\ Len(saved) = 3
    /\ sink.state = "table"
    /\ Len(sink.header) = 3
    /\ \E j \in 1..3 : ~ DictHas(saved[1], sink.header[j]) /\ sink.rows[1][j] = <<>>
    /\ DictKeys(saved[1]) # DictKeys(saved[2])

\* C3: a run that ends in fetch failure or in insufficient fields leaves the
\* sink exactly as it was.
C3_FailureLeavesSink ==
    [][ (runs' = runs + 1 /\ (FetchFailed' \/ Insufficient')) => sink' = sink ]_vars

\* C3 witness: a run found too few fields while the sink held a row, and the
\* sink is as it was
C3_Witness ==
    /\ outcome = "insufficient"
    /\ Len(flat_record.d) > 1
    /\ sink_before.state = "table"
    /\ sink = sink_before

\* C4: save_to_csv with a non-empty record on an unreadable sink leaves a
\* readable sink of exactly one row, the new record; the earlier rows are gone.
C4_CorruptOverwrite ==
    [][ (runs' = runs + 1 /\ sink.state = "corrupt" /\ flat_record'.d # <<>>) =>
          /\ sink'.state = "table"
          /\ sink'.header = [j \in 1..Len(flat_record'.d) |-> flat_record'.d[j][1]]
          /\ sink'.rows = << [j \in 1..Len(flat_record'.d) |->
                                CellText(flat_record'.d[j][2])] >> ]_vars

\* C4 witness: two records had been saved, the sink was damaged, and the call
\* left one row
C4_Witness ==
    /\ outcome = "overwritten"
    /\ Len(saved) = 3
    /\ sink_before.state = "corrupt"
    /\ sink.state = "table"
    /\ Len(sink.rows) = 1

\* C5: one minimum M decides: a document is rejected as insufficient exactly
\* when its payload contributes fewer than M columns, with or without the
\* revision marker.  Then every rejected payload is smaller than every
\* accepted one.
C5_SingleMinimum == \A a \in accepted : \A r \in rejected : r < a

kCOLOR == <<"_","C","O","L","O","R">>

\* C6: no column of the record comes from a key "color", and no value is the
\* string "label".
C6_Denylist ==
    flat_record.kind = "dict" =>
        \A i \in 1..Len(flat_record.d) :
            /\ ~ EndsWith(flat_record.d[i][1], kCOLOR)
            /\ flat_record.d[i][2] # Str(kLabel)

NamingFields == <<kType, kService, kName, kLabel>>

\* the identifier C7 states: the value of the first naming field the row has
ClaimedId(row, i) ==
    LET present == SelectSeq(NamingFields, LAMBDA f : DictHas(row, f))
    IN  IF present # <<>> THEN DictAt(row, present[1]) ELSE Str(kINDEX \o IntStr(i))

\* the identifier of the amended C7: the value of the first naming field the
\* row has with a value that is not empty, zero, null or false
AmendedId(row, i) ==
    LET present == SelectSeq(NamingFields,
                             LAMBDA f : DictHas(row, f) /\ Truthy(DictAt(row, f)))
    IN  IF present # <<>> THEN DictAt(row, present[1]) ELSE Str(kINDEX \o IntStr(i))

\* the column of a row's "val" under "data", "rows" and the identifier id
ValColumn(id) ==
    Replace(StrUpper(<<"D","A","T","A","_","R","O","W","S","_">> \o PyStr(id)), {" "})
        \o <<"_","V","A","L">>

\* the document is {"data": {"rows": [row, ...]}} and has been flattened
RowsFlattened ==
    /\ outcome = "flattened"
    /\ json_data \in RowDocs
    /\ flat_record.kind = "dict"

Rows == json_data.v[1][2].v[1][2].v

\* C7 as stated: the prefix of row i comes from the first naming field the row
\* contains, and from INDEX{i} only when it contains none.
C7_FirstPresentField ==
    RowsFlattened =>
        DictKeys(flat_record.d) \ {k_scrape}
            = {ValColumn(ClaimedId(Rows[i].v, i - 1)) : i \in 1..Len(Rows)}

\* C7 amended: the prefix of row i comes from the first of "type", "service",
\* "name", "label" whose value is not empty, zero, null or false, and from
\* INDEX{i} when the row has no such field.
C7_FirstTruthyField ==
    RowsFlattened =>
        DictKeys(flat_record.d) \ {k_scrape}
            = {ValColumn(AmendedId(Rows[i].v, i - 1)) : i \in 1..Len(Rows)}

\* C7 witness: a row with an empty "type" and a "name" got its column from the
\* name, and a row with only a null "name" got INDEX1
C7_Witness ==
    /\ RowsFlattened
    /\ Len(Rows) = 2
    /\ DictGet(Rows[1].v, kType, None) = Str(<<>>)
    /\ DictGet(Rows[1].v, kName, None) = Str(sXy)
    /\ DictHas(Rows[2].v, kName)
    /\ DictKeys(flat_record.d) \ {k_scrape}
          = { <<"D","A","T","A","_","R","O","W","S","_","X","_","Y","_","V","A","L">>,
              <<"D","A","T","A","_","R","O","W","S","_","I","N","D","E","X","1","_","V","A","L">> }

\* C8: every value of the record is a number, a string or a bool.
C8_ScalarValues ==
    flat_record.kind = "dict" =>
        \A i \in 1..Len(flat_record.d) : flat_record.d[i][2].t \in {"num", "str", "bool"}

\* C9: without a "data" member the document root is flattened, so a metric at
\* the root is a column of the record.
C9_RootFallback ==
    ( /\ flat_record.kind = "dict"
      /\ ~ DictHas(json_data.v, kData)
      /\ \E i \in 1..Len(json_data.v) :
            json_data.v[i][1] = kVal /\ json_data.v[i][2] = Num(5) )
    => PayloadCount(flat_record.d) > 0

\* C10: flatten_data returns a record for every document; it never raises.
C10_Total == outcome = "flattened" => flat_record.kind # "raise"

====
